---- MODULE Spec2Model ----
(***************************************************************************)
(* Model of android-utils/rust/os.rs: the JHandler / JHandlerSpawn bridge  *)
(* that runs Rust futures on an android.os.Handler, its HandlerWaker and   *)
(* the process-wide fallback thread that posts on behalf of threads that   *)
(* are not attached to the JVM.                                            *)
(***************************************************************************)
EXTENDS Integers, Sequences, FiniteSets, TLC

\* ------------------------------------------------------------------ bounds
NumTasks == 2        \* futures spawned in one run
MaxPending == 1      \* largest N: Pending polls of a future before its Ready poll
MaxWakes == 2        \* wake() calls in one run
MaxHostErrors == 1   \* JNI calls of the wake path that return Err in one run
NumServices == 2     \* host service objects of the registered class
MaxCallbacks == 2    \* bind / unbind / rebind / startCommand callbacks in one run
MaxEvents == 3       \* ServiceConnection callbacks in one run
MaxFromEnv == 3      \* JHandler::from_env calls in one run
MaxSubmits == 3      \* JHandler::post calls in one run

\* ---------------------------------------------------------------- universe
Tasks == 1..NumTasks
Queues == {"qa", "qb"}                  \* android.os.Handler instances
Threads == {"main", "worker", "native"} \* threads of the application
AttachedThreads == {"main", "worker"}   \* threads for which JavaVM::get_env succeeds
FallbackThread == "wake-fallback"       \* the Java thread started by init_fallback_thread
Looper(q) == IF q = "qa" THEN "main" ELSE "worker" \* the thread that runs q's Runnables
Kinds == {"send", "local"}              \* spawn_obj / spawn_local_obj
AnyThread == "any"                      \* fn_mut_runnable: the runnable runs on any thread
NoTask == 0
NoWaker == 0
Services == 1..NumServices              \* instances of the registered RustService class
Handlers == 1..NumServices              \* the objects the factory returns
NoHandler == 0
HookFields == {"onStartCommandHook", "onBindHook", "onUnbindHook", "onRebindHook"}
Intents == {"i1", "i2"}                 \* android.content.Intent objects
START_FLAG_REDELIVERY == 1
START_FLAG_RETRY == 2
StartFlags == {START_FLAG_REDELIVERY, START_FLAG_RETRY}
StartIds == {42, 43}
NoArg == 0                              \* a method without that parameter
Names == {"n1", "n2"}                   \* android.content.ComponentName objects
Binders == {"b1", "b2"}                 \* android.os.IBinder objects
NoBinder == "null"
\* The hosts a JNIEnv can belong to: one with android.os.Handler and its post
\* method, one without the class, one with the class but without the method.
Envs == {"android", "no_class", "no_method"}

VARIABLES
    pc,         \* pc[th]: "idle", or where th is inside FALLBACK_SENDER.get_or_init: "init", "blocked"
    cur,        \* cur[th]: the task th is spawning
    tstate,     \* tstate[t]: "none", "wrapped" (runnable built), "spawned" (Ok), "failed" (Err)
    tq,         \* tq[t]: the Handler of the JHandlerSpawn the task was spawned through
    owner,      \* owner[t]: the thread a fn_mut_runnable_local runnable is bound to, or AnyThread
    spawner,    \* spawner[t]: the thread that called spawn_obj / spawn_local_obj for the task
    need,       \* need[t]: N, the number of polls of the future that return Pending
    closure,    \* closure[t]: the FnRunnable still holds the Rust closure (future + waker_cell)
    wakerCell,  \* wakerCell[t]: the OnceCell<Waker> of the closure: NoWaker or an index of wakers
    polls,      \* polls[t]: polls of the future started so far
    lastPoll,   \* lastPoll[t]: "none", "Pending", "Ready": what the last returned poll gave
    closeCalls, \* closeCalls[t]: calls of close() on the task's runnable
    excs,       \* excs[t]: LocalThreadExceptions thrown by run()
    noops,      \* noops[t]: run() calls on the closed runnable
    seen,       \* seen[t]: the wakers handed to polls of the task
    inits,      \* inits[t]: times the waker_cell init closure ran
    woken,      \* woken[t]: wake() calls on wakers of the task so far
    late,       \* wake() calls made on a waker after its task's poll returned Ready
    wakers,     \* the HandlerWakers ever created: <<[handler, runnable]>>
    queue,      \* queue[q]: the Runnables posted to q and not yet run
    alive,      \* alive[q]: q's looper has not quit (post returns true)
    running,    \* running[q]: the task whose closure q's thread is executing, or NoTask
    cell,       \* FALLBACK_SENDER: "uninit", "initializing", "set"
    sender,     \* the Option<Sender> inside FALLBACK_SENDER is Some
    chan,       \* the mpsc channel: wakers sent and not yet received
    fb,         \* the fallback thread: "none", "running", "exited", "panicked"
    started,    \* fallback threads ever started
    hooks,      \* shutdown hooks ever registered
    hookRan,    \* the shutdown hook has run
    wakeCalls,  \* wake() / wake_by_ref() calls so far
    panics,     \* panics raised inside wake()
    hostErrs,   \* JNI calls inside wake_direct that returned Err to an attached thread
    registered, \* RustService.onCreateHooks holds the on_create_hook of the service class
    sstate,     \* sstate[s]: host service object s: "none", "constructed", "created", "destroyed"
    hook,       \* hook[s][f]: the handler captured by the FnFunction in field f of s, or NoHandler
    factoryCalls, \* calls of the factory closure so far
    handlerOf,  \* handlerOf[s]: the object the factory returned for s, or NoHandler
    refs,       \* refs[h]: strong count of the Arc<T> around handler object h
    hlive,      \* hlive[h]: "none", "live", "dropped" (T's Drop has run)
    received,   \* received[h]: the RustService method calls made on handler object h
    invoked,    \* invoked[s]: the callbacks the host made on s between create and destroy
    svcCalls,   \* host callbacks on created services so far
    conn,       \* async_service_connection has returned the connection and its stream
    evQueue,    \* the event objects the connection's Java stream holds
    delivered,  \* the ServiceConnection callbacks the host has invoked, in order
    yielded,    \* the items the mapped stream has yielded to its consumer
    consumer,   \* the consuming task: "none", "queued", "parked"
    cpolls,     \* polls of the consuming task so far
    handles,    \* the JHandlers constructed: <<[env, internal, post]>>
    classLookups,  \* find_class("android/os/Handler") calls so far
    methodLookups, \* get_method_id(class, "post", ..) calls so far
    lookupErrs, \* from_env calls that returned Err
    submits     \* submits[h]: JHandler::post calls made through handle h

thVars == <<pc, cur>>
spawnVars == <<tstate, tq, owner, spawner, need>>
runVars == <<closure, wakerCell, polls, lastPoll, closeCalls, excs, noops, seen, inits, wakers>>
ghostVars == <<woken, late>>
qVars == <<queue, alive, running>>
fbVars == <<cell, sender, chan, fb, started, hooks, hookRan>>
wakeVars == <<wakeCalls, panics, hostErrs>>
svcVars == <<registered, sstate, hook, factoryCalls, handlerOf, refs, hlive, received,
             invoked, svcCalls>>
connVars == <<conn, evQueue, delivered, yielded, consumer, cpolls>>
handleVars == <<handles, classLookups, methodLookups, lookupErrs, submits>>
glueVars == <<svcVars, connVars, handleVars>>
osVars == <<thVars, spawnVars, runVars, ghostVars, qVars, fbVars, wakeVars>>
vars == <<osVars, glueVars>>

Init ==
    /\ pc = [th \in Threads |-> "idle"]
    /\ cur = [th \in Threads |-> NoTask]
    /\ tstate = [t \in Tasks |-> "none"]
    /\ tq = [t \in Tasks |-> "qa"]
    /\ owner = [t \in Tasks |-> AnyThread]
    /\ spawner = [t \in Tasks |-> "none"]
    /\ need = [t \in Tasks |-> 0]
    /\ closure = [t \in Tasks |-> FALSE]
    /\ wakerCell = [t \in Tasks |-> NoWaker]
    /\ polls = [t \in Tasks |-> 0]
    /\ lastPoll = [t \in Tasks |-> "none"]
    /\ closeCalls = [t \in Tasks |-> 0]
    /\ excs = [t \in Tasks |-> 0]
    /\ noops = [t \in Tasks |-> 0]
    /\ seen = [t \in Tasks |-> {}]
    /\ inits = [t \in Tasks |-> 0]
    /\ woken = [t \in Tasks |-> 0]
    /\ late = 0
    /\ wakers = <<>>
    /\ queue = [q \in Queues |-> <<>>]
    /\ alive = [q \in Queues |-> TRUE]
    /\ running = [q \in Queues |-> NoTask]
    /\ cell = "uninit"
    /\ sender = FALSE
    /\ chan = <<>>
    /\ fb = "none"
    /\ started = 0
    /\ hooks = 0
    /\ hookRan = FALSE
    /\ wakeCalls = 0
    /\ panics = 0
    /\ hostErrs = 0
    /\ registered = FALSE
    /\ sstate = [s \in Services |-> "none"]
    /\ hook = [s \in Services |-> [f \in HookFields |-> NoHandler]]
    /\ factoryCalls = 0
    /\ handlerOf = [s \in Services |-> NoHandler]
    /\ refs = [h \in Handlers |-> 0]
    /\ hlive = [h \in Handlers |-> "none"]
    /\ received = [h \in Handlers |-> <<>>]
    /\ invoked = [s \in Services |-> <<>>]
    /\ svcCalls = 0
    /\ conn = FALSE
    /\ evQueue = <<>>
    /\ delivered = <<>>
    /\ yielded = <<>>
    /\ consumer = "none"
    /\ cpolls = 0
    /\ handles = <<>>
    /\ classLookups = 0
    /\ methodLookups = 0
    /\ lookupErrs = 0
    /\ submits = <<>>

\* ------------------------------------------------------------ JHandler::post
\* Handler.post(Runnable): appends to the message queue and returns true, or
\* returns false and queues nothing once the looper has quit.
postResult(q) == alive[q]

\* Mutant: the runnable is queued twice by one post.
post_twice(q, item) ==
    [queue EXCEPT ![q] = IF alive[q] THEN Append(Append(@, item), item) ELSE @]

\* Mutant: the runnable lands in the message queue of the other Handler.
post_other_queue(q, item) ==
    IF alive[q]
    THEN [queue EXCEPT ![IF q = "qa" THEN "qb" ELSE "qa"] = Append(@, item)]
    ELSE queue

post(q, item) == [queue EXCEPT ![q] = IF alive[q] THEN Append(@, item) ELSE @]

\* -------------------------------------------------------- init_fallback_thread
\* Mutant: check-then-init without the cell's lock: every thread that finds the
\* cell not set runs the init closure.
get_or_init_racy(c) == IF c = "set" THEN "done" ELSE "init"

\* Mutant: post_spawn does not call init_fallback_thread.
get_or_init_skipped(c) == "done"

\* FALLBACK_SENDER.get_or_init as seen by the calling thread: with the cell set
\* it returns at once ("done"); with the cell empty this thread runs the init
\* closure ("init"); while another thread runs it, this one blocks ("blocked").
get_or_init_enter(c) ==
    IF c = "set" THEN "done" ELSE IF c = "uninit" THEN "init" ELSE "blocked"

\* Mutant: post_spawn returns Ok(()) whatever post returned.
spawn_result_always_ok(q) == "spawned"

\* post_spawn after init_fallback_thread returned: post the runnable; Ok(()) if
\* post returned true, Err(SpawnError::shutdown()) otherwise.
spawn_result(q) == IF postResult(q) THEN "spawned" ELSE "failed"

\* Mutant: spawn_obj binds its runnable to the calling thread as well.
runnable_owner_always_local(k, th) == th

\* fn_mut_runnable (spawn_obj) makes a runnable any thread may run,
\* fn_mut_runnable_local (spawn_local_obj) one bound to the calling thread.
runnable_owner(k, th) == IF k = "local" THEN th ELSE AnyThread

\* spawn_obj / spawn_local_obj: wrap_future builds the closure with an empty
\* waker_cell and a global ref of the handler, fn_mut_runnable(_local) wraps it
\* for the calling thread, post_spawn calls init_fallback_thread and posts.
\* The call runs to its end unless FALLBACK_SENDER is not set yet.
spawn(th, t, q, k, n) ==
    /\ pc[th] = "idle"
    /\ th \in AttachedThreads
    /\ tstate[t] = "none"
    /\ \A u \in Tasks : u < t => tstate[u] # "none"
    /\ tq' = [tq EXCEPT ![t] = q]
    /\ owner' = [owner EXCEPT ![t] = runnable_owner(k, th)]
    /\ spawner' = [spawner EXCEPT ![t] = th]
    /\ need' = [need EXCEPT ![t] = n]
    /\ closure' = [closure EXCEPT ![t] = TRUE]
    /\ IF get_or_init_enter(cell) = "done" THEN
            /\ queue' = post(q, t)
            /\ tstate' = [tstate EXCEPT ![t] = spawn_result(q)]
            /\ UNCHANGED <<pc, cur, cell>>
       ELSE /\ tstate' = [tstate EXCEPT ![t] = "wrapped"]
            /\ cur' = [cur EXCEPT ![th] = t]
            /\ pc' = [pc EXCEPT ![th] = get_or_init_enter(cell)]
            /\ cell' = IF get_or_init_enter(cell) = "init" THEN "initializing" ELSE cell
            /\ UNCHANGED queue
    /\ UNCHANGED <<wakerCell, polls, lastPoll, closeCalls, excs, noops, seen, inits, wakers>>
    /\ UNCHANGED <<ghostVars, alive, running, wakeVars>>
    /\ UNCHANGED <<sender, chan, fb, started, hooks, hookRan>>
    /\ UNCHANGED glueVars

\* The init closure of FALLBACK_SENDER: creates the channel, registers the
\* shutdown hook, starts the daemon thread "wake-fallback" and sets the cell to
\* Mutex::new(Some(sender)).
init_fallback_thread(th) ==
    /\ pc[th] = "init"
    /\ cell' = "set"
    /\ sender' = TRUE
    /\ hooks' = hooks + 1
    /\ started' = started + 1
    /\ fb' = "running"
    /\ pc' = [pc EXCEPT ![th] = "blocked"]
    /\ UNCHANGED <<cur, chan, hookRan>>
    /\ UNCHANGED <<spawnVars, runVars, ghostVars, qVars, wakeVars>>
    /\ UNCHANGED glueVars

\* get_or_init has returned in a thread that ran or awaited the init closure:
\* the rest of post_spawn.
post_spawn(th) ==
    /\ pc[th] = "blocked"
    /\ cell = "set"
    /\ LET t == cur[th] IN
        /\ queue' = post(tq[t], t)
        /\ tstate' = [tstate EXCEPT ![t] = spawn_result(tq[t])]
    /\ pc' = [pc EXCEPT ![th] = "idle"]
    /\ cur' = [cur EXCEPT ![th] = NoTask]
    /\ UNCHANGED <<tq, owner, spawner, need, alive, running>>
    /\ UNCHANGED <<runVars, ghostVars, fbVars, wakeVars>>
    /\ UNCHANGED glueVars

\* --------------------------------------------------- wrap_future: the closure
\* FnRunnable.run() reaches the Rust closure only while the runnable still holds
\* it (close() drops it), and a runnable made by fn_mut_runnable_local only
\* on the thread that made it.
\* Mutant: close() leaves the closure in the runnable.
closure_never_dropped(t) == TRUE

closure_present(t) == closure[t]

\* Mutant: every run() throws LocalThreadException.
thread_ok_nowhere(t, q) == FALSE

\* Mutant: a runnable of fn_mut_runnable_local runs on whichever thread calls it.
thread_ok_anywhere(t, q) == TRUE

thread_ok(t, q) == owner[t] = AnyThread \/ owner[t] = Looper(q)

\* Mutant: a waker is built on every run.
cell_always_init(c) == TRUE

\* waker_cell.get_or_init: the init closure runs only for an empty cell.
cell_needs_init(c) == c = NoWaker

\* Mutant: the waker holds the runnable of the other task.
new_waker_other_task(t, obj) ==
    [handler |-> tq[t], runnable |-> IF obj = 1 THEN NumTasks ELSE 1]

\* Mutant: the waker holds the other Handler.
new_waker_other_queue(t, obj) ==
    [handler |-> IF tq[t] = "qa" THEN "qb" ELSE "qa", runnable |-> obj]

\* The HandlerWaker built by the init closure: the handler captured by
\* wrap_future and a global ref of the runnable that is being run.
new_waker(t, obj) == [handler |-> tq[t], runnable |-> obj]

\* Mutant: the queue runs its next Runnable and leaves it queued.
RunnableRun_keeps_head(q) ==
    /\ alive[q]
    /\ running[q] = NoTask
    /\ queue[q] # <<>>
    /\ pc[Looper(q)] = "idle"
    /\ LET t == Head(queue[q]) IN
        /\ queue' = queue
        /\ IF ~closure_present(t) THEN
                /\ noops' = [noops EXCEPT ![t] = @ + 1]
                /\ UNCHANGED <<wakerCell, polls, excs, seen, inits, wakers, running>>
           ELSE IF ~thread_ok(t, q) THEN
                /\ excs' = [excs EXCEPT ![t] = @ + 1]
                /\ UNCHANGED <<wakerCell, polls, noops, seen, inits, wakers, running>>
           ELSE LET fresh == cell_needs_init(wakerCell[t])
                    w == IF fresh THEN Len(wakers) + 1 ELSE wakerCell[t]
                IN  /\ wakers' = IF fresh THEN Append(wakers, new_waker(t, t)) ELSE wakers
                    /\ wakerCell' = [wakerCell EXCEPT ![t] = w]
                    /\ inits' = [inits EXCEPT ![t] = IF fresh THEN @ + 1 ELSE @]
                    /\ seen' = [seen EXCEPT ![t] = @ \cup {w}]
                    /\ polls' = [polls EXCEPT ![t] = @ + 1]
                    /\ running' = [running EXCEPT ![q] = t]
                    /\ UNCHANGED <<excs, noops>>
    /\ UNCHANGED <<closure, lastPoll, closeCalls, alive>>
    /\ UNCHANGED <<thVars, spawnVars, ghostVars, fbVars, wakeVars>>
    /\ UNCHANGED glueVars

\* The host queue takes the next Runnable of q and calls run() on it, up to the
\* call of the future's poll.
RunnableRun(q) ==
    /\ alive[q]
    /\ running[q] = NoTask
    /\ queue[q] # <<>>
    /\ pc[Looper(q)] = "idle"
    /\ LET t == Head(queue[q]) IN
        /\ queue' = [queue EXCEPT ![q] = Tail(@)]
        /\ IF ~closure_present(t) THEN
                /\ noops' = [noops EXCEPT ![t] = @ + 1]
                /\ UNCHANGED <<wakerCell, polls, excs, seen, inits, wakers, running>>
           ELSE IF ~thread_ok(t, q) THEN
                /\ excs' = [excs EXCEPT ![t] = @ + 1]
                /\ UNCHANGED <<wakerCell, polls, noops, seen, inits, wakers, running>>
           ELSE LET fresh == cell_needs_init(wakerCell[t])
                    w == IF fresh THEN Len(wakers) + 1 ELSE wakerCell[t]
                IN  /\ wakers' = IF fresh THEN Append(wakers, new_waker(t, t)) ELSE wakers
                    /\ wakerCell' = [wakerCell EXCEPT ![t] = w]
                    /\ inits' = [inits EXCEPT ![t] = IF fresh THEN @ + 1 ELSE @]
                    /\ seen' = [seen EXCEPT ![t] = @ \cup {w}]
                    /\ polls' = [polls EXCEPT ![t] = @ + 1]
                    /\ running' = [running EXCEPT ![q] = t]
                    /\ UNCHANGED <<excs, noops>>
    /\ UNCHANGED <<closure, lastPoll, closeCalls, alive>>
    /\ UNCHANGED <<thVars, spawnVars, ghostVars, fbVars, wakeVars>>
    /\ UNCHANGED glueVars

\* The future: Pending on its first need[t] polls, Ready on the next one.
poll(t) == IF polls[t] > need[t] THEN "Ready" ELSE "Pending"

\* match pin.poll(..): Poll::Ready calls close() on the runnable, Poll::Pending
\* does nothing.
\* Mutant: both arms call close().
calls_close_always(r) == TRUE

\* Mutant: the Ready arm does not call close().
calls_close_never(r) == FALSE

calls_close(r) == r = "Ready"

\* Mutant: the Pending arm posts the runnable again.
pending_arm_reposts(q, t) == post(q, t)

\* The arm Poll::Pending => {} : the queue it leaves behind.
pending_arm(q, t) == queue

\* The poll returns and the closure with it.
PollReturn(q) ==
    /\ running[q] # NoTask
    /\ pc[Looper(q)] = "idle"
    /\ LET t == running[q]
           r == poll(t)
       IN  /\ lastPoll' = [lastPoll EXCEPT ![t] = r]
           /\ IF calls_close(r) THEN
                /\ closeCalls' = [closeCalls EXCEPT ![t] = @ + 1]
                /\ closure' = [closure EXCEPT ![t] = FALSE]
                /\ wakerCell' = [wakerCell EXCEPT ![t] = NoWaker]
                /\ UNCHANGED queue
              ELSE
                /\ queue' = pending_arm(q, t)
                /\ UNCHANGED <<closeCalls, closure, wakerCell>>
    /\ running' = [running EXCEPT ![q] = NoTask]
    /\ UNCHANGED <<polls, excs, noops, seen, inits, wakers, alive>>
    /\ UNCHANGED <<thVars, spawnVars, ghostVars, fbVars, wakeVars>>
    /\ UNCHANGED glueVars

\* ------------------------------------------------------------- HandlerWaker
\* Mutant: get_env succeeds on every thread.
get_env_always(th) == TRUE

\* Mutant: the fallback thread is not attached either.
get_env_app_only(th) == th \in AttachedThreads

\* Mutant: get_env succeeds on the fallback thread only.
get_env_fallback_only(th) == th = FallbackThread

\* self.vm.get_env(): Ok only on a thread attached to the JVM.
get_env_ok(th) == th \in AttachedThreads \/ th = FallbackThread

\* Mutant: wake_direct returns Ok without posting.
wake_direct_no_post(w) == queue' = queue

\* Mutant: the waker looks at the task and posts nothing once it has completed.
wake_direct_unless_closed(w) ==
    queue' = IF closure[wakers[w].runnable]
             THEN post(wakers[w].handler, wakers[w].runnable) ELSE queue

\* Mutant: the waker posts nothing while the task's closure is being run.
wake_direct_unless_running(w) ==
    queue' = IF \E q \in Queues : running[q] = wakers[w].runnable
             THEN queue ELSE post(wakers[w].handler, wakers[w].runnable)

\* Mutant: the waker posts nothing while an entry of the runnable is queued.
wake_direct_coalescing(w) ==
    queue' = IF \E i \in DOMAIN queue[wakers[w].handler] :
                    queue[wakers[w].handler][i] = wakers[w].runnable
             THEN queue ELSE post(wakers[w].handler, wakers[w].runnable)

\* wake_direct after get_env succeeded: post the runnable to the handler; the
\* boolean post returns is dropped.
wake_direct(w) == queue' = post(wakers[w].handler, wakers[w].runnable)

\* wake_fallback: FALLBACK_SENDER.get().unwrap(), guard.as_ref().unwrap() and
\* send(self).unwrap() each panic when there is nothing to unwrap; send returns
\* Err once the fallback thread has dropped the receiver.
fallback_can_send == cell = "set" /\ sender /\ fb = "running"

wake_fallback(w) ==
    IF fallback_can_send
    THEN chan' = Append(chan, w) /\ panics' = panics
    ELSE chan' = chan /\ panics' = panics + 1

\* self.wake_direct() as wake and wake_by_ref see it: Err when get_env fails
\* on the calling thread or when a JNI call of from_env or post fails (jniOk
\* false), Ok(()) otherwise.
wake_direct_result(th, jniOk) == IF get_env_ok(th) /\ jniOk THEN "Ok" ELSE "Err"

\* What one call leaves behind: the host queues, the fallback channel, the
\* panics so far, and whether the caller's Arc<HandlerWaker> was consumed.
WakeEffect(q, c, p, consumed) == [queue |-> q, chan |-> c, panics |-> p, consumed |-> consumed]

\* fn wake(self: Arc<Self>): if self.wake_direct().is_err() { self.wake_fallback(); }
\* The Arc is moved into the call, and into the channel on the fallback path.
Wake_wake(w, th, jniOk) ==
    IF wake_direct_result(th, jniOk) = "Ok"
    THEN WakeEffect(post(wakers[w].handler, wakers[w].runnable), chan, panics, TRUE)
    ELSE IF fallback_can_send
    THEN WakeEffect(queue, Append(chan, w), panics, TRUE)
    ELSE WakeEffect(queue, chan, panics + 1, TRUE)

\* Mutant: wake_by_ref drops the Err of wake_direct.
Wake_wake_by_ref_no_fallback(w, th, jniOk) ==
    IF wake_direct_result(th, jniOk) = "Ok"
    THEN WakeEffect(post(wakers[w].handler, wakers[w].runnable), chan, panics, FALSE)
    ELSE WakeEffect(queue, chan, panics, FALSE)

\* fn wake_by_ref(self: &Arc<Self>): if self.wake_direct().is_err() {
\* self.clone().wake_fallback(); }  The caller keeps its Arc; a clone of it,
\* the same HandlerWaker, goes into the channel on the fallback path.
Wake_wake_by_ref(w, th, jniOk) ==
    IF wake_direct_result(th, jniOk) = "Ok"
    THEN WakeEffect(post(wakers[w].handler, wakers[w].runnable), chan, panics, FALSE)
    ELSE IF fallback_can_send
    THEN WakeEffect(queue, Append(chan, w), panics, FALSE)
    ELSE WakeEffect(queue, chan, panics + 1, FALSE)

\* Mutant: a post that returns false is taken for a failure and the waker goes
\* to the fallback channel.
wake_false_is_error(w, th) ==
    /\ w \in 1..Len(wakers)
    /\ pc[th] = "idle"
    /\ wakeCalls < MaxWakes
    /\ wakeCalls' = wakeCalls + 1
    /\ IF get_env_ok(th) /\ postResult(wakers[w].handler)
       THEN wake_direct(w) /\ UNCHANGED <<chan, panics>>
       ELSE wake_fallback(w) /\ UNCHANGED queue
    /\ woken' = [woken EXCEPT ![wakers[w].runnable] = @ + 1]
    /\ late' = IF lastPoll[wakers[w].runnable] = "Ready" THEN late + 1 ELSE late
    /\ UNCHANGED <<alive, running, cell, sender, fb, started, hooks, hookRan>>
    /\ UNCHANGED <<thVars, spawnVars, runVars, hostErrs>>
    /\ UNCHANGED glueVars

\* Wake::wake / Wake::wake_by_ref called on waker w by thread th.
wake(w, th) ==
    /\ w \in 1..Len(wakers)
    /\ pc[th] = "idle"
    /\ wakeCalls < MaxWakes
    /\ wakeCalls' = wakeCalls + 1
    /\ IF get_env_ok(th)
       THEN wake_direct(w) /\ UNCHANGED <<chan, panics>>
       ELSE wake_fallback(w) /\ UNCHANGED queue
    /\ woken' = [woken EXCEPT ![wakers[w].runnable] = @ + 1]
    /\ late' = IF lastPoll[wakers[w].runnable] = "Ready" THEN late + 1 ELSE late
    /\ UNCHANGED <<alive, running, cell, sender, fb, started, hooks, hookRan>>
    /\ UNCHANGED <<thVars, spawnVars, runVars, hostErrs>>
    /\ UNCHANGED glueVars

\* Mutant: the waker posts again on the calling thread after the Err.
wake_host_error_reposts(w, th) ==
    /\ w \in 1..Len(wakers)
    /\ pc[th] = "idle"
    /\ get_env_ok(th)
    /\ wakeCalls < MaxWakes
    /\ hostErrs < MaxHostErrors
    /\ wakeCalls' = wakeCalls + 1
    /\ hostErrs' = hostErrs + 1
    /\ wake_fallback(w)
    /\ wake_direct(w)
    /\ woken' = [woken EXCEPT ![wakers[w].runnable] = @ + 1]
    /\ late' = IF lastPoll[wakers[w].runnable] = "Ready" THEN late + 1 ELSE late
    /\ UNCHANGED <<alive, running, cell, sender, fb, started, hooks, hookRan>>
    /\ UNCHANGED <<thVars, spawnVars, runVars>>
    /\ UNCHANGED glueVars

\* Wake::wake / Wake::wake_by_ref on an attached thread when a JNI call inside
\* wake_direct (JHandler::from_env or the call of post) returns Err: nothing
\* has been posted, wake_direct().is_err() holds and wake_fallback is called.
wake_host_error(w, th) ==
    /\ w \in 1..Len(wakers)
    /\ pc[th] = "idle"
    /\ get_env_ok(th)
    /\ wakeCalls < MaxWakes
    /\ hostErrs < MaxHostErrors
    /\ wakeCalls' = wakeCalls + 1
    /\ hostErrs' = hostErrs + 1
    /\ wake_fallback(w)
    /\ UNCHANGED queue
    /\ woken' = [woken EXCEPT ![wakers[w].runnable] = @ + 1]
    /\ late' = IF lastPoll[wakers[w].runnable] = "Ready" THEN late + 1 ELSE late
    /\ UNCHANGED <<alive, running, cell, sender, fb, started, hooks, hookRan>>
    /\ UNCHANGED <<thVars, spawnVars, runVars>>
    /\ UNCHANGED glueVars

\* ------------------------------------------------------- the fallback thread
\* Mutant: the loop posts the head of the channel and leaves it there.
FallbackDeliver_keeps_request ==
    /\ fb = "running"
    /\ chan # <<>>
    /\ get_env_ok(FallbackThread)
    /\ Len(queue[wakers[Head(chan)].handler]) < 2
    /\ wake_direct(Head(chan))
    /\ chan' = chan
    /\ UNCHANGED <<alive, running, cell, sender, fb, started, hooks, hookRan>>
    /\ UNCHANGED <<thVars, spawnVars, runVars, ghostVars, wakeVars>>
    /\ UNCHANGED glueVars

\* Mutant: the loop takes the newest request of the channel first.
FallbackDeliver_takes_last ==
    /\ fb = "running"
    /\ chan # <<>>
    /\ get_env_ok(FallbackThread)
    /\ wake_direct(chan[Len(chan)])
    /\ chan' = SubSeq(chan, 1, Len(chan) - 1)
    /\ UNCHANGED <<alive, running, cell, sender, fb, started, hooks, hookRan>>
    /\ UNCHANGED <<thVars, spawnVars, runVars, ghostVars, wakeVars>>
    /\ UNCHANGED glueVars

\* for waker in receiver { waker.wake_direct().unwrap(); }
FallbackDeliver ==
    /\ fb = "running"
    /\ chan # <<>>
    /\ get_env_ok(FallbackThread)
    /\ wake_direct(Head(chan))
    /\ chan' = Tail(chan)
    /\ UNCHANGED <<alive, running, cell, sender, fb, started, hooks, hookRan>>
    /\ UNCHANGED <<thVars, spawnVars, runVars, ghostVars, wakeVars>>
    /\ UNCHANGED glueVars

\* Mutant: the loop drops the Err and goes on with the next request.
FallbackDeliverPanic_ignored ==
    /\ fb = "running"
    /\ chan # <<>>
    /\ hostErrs < MaxHostErrors
    /\ hostErrs' = hostErrs + 1
    /\ chan' = Tail(chan)
    /\ UNCHANGED <<wakeCalls, panics>>
    /\ UNCHANGED <<cell, sender, fb, started, hooks, hookRan>>
    /\ UNCHANGED <<thVars, spawnVars, runVars, ghostVars, qVars>>
    /\ UNCHANGED glueVars

\* waker.wake_direct().unwrap() when wake_direct returns Err on the fallback
\* thread: nothing is posted and the thread panics out of its loop; the
\* receiver is dropped and with it the requests still in the channel.
FallbackDeliverPanic ==
    /\ fb = "running"
    /\ chan # <<>>
    /\ hostErrs < MaxHostErrors
    /\ hostErrs' = hostErrs + 1
    /\ fb' = "panicked"
    /\ chan' = <<>>
    /\ UNCHANGED <<wakeCalls, panics>>
    /\ UNCHANGED <<cell, sender, started, hooks, hookRan>>
    /\ UNCHANGED <<thVars, spawnVars, runVars, ghostVars, qVars>>
    /\ UNCHANGED glueVars

\* Mutant: the receive loop ends as soon as the channel is empty.
FallbackExit_on_empty ==
    /\ fb = "running"
    /\ chan = <<>>
    /\ fb' = "exited"
    /\ UNCHANGED <<cell, sender, chan, started, hooks, hookRan>>
    /\ UNCHANGED <<thVars, spawnVars, runVars, ghostVars, qVars, wakeVars>>
    /\ UNCHANGED glueVars

\* Mutant: the receive loop ends as soon as the Sender is gone, whatever the
\* channel still holds.
FallbackExit_on_disconnect ==
    /\ fb = "running"
    /\ ~sender
    /\ fb' = "exited"
    /\ UNCHANGED <<cell, sender, chan, started, hooks, hookRan>>
    /\ UNCHANGED <<thVars, spawnVars, runVars, ghostVars, qVars, wakeVars>>
    /\ UNCHANGED glueVars

\* The receiver's iterator ends once the channel is empty and its only Sender
\* is gone.
FallbackExit ==
    /\ fb = "running"
    /\ chan = <<>>
    /\ ~sender
    /\ fb' = "exited"
    /\ UNCHANGED <<cell, sender, chan, started, hooks, hookRan>>
    /\ UNCHANGED <<thVars, spawnVars, runVars, ghostVars, qVars, wakeVars>>
    /\ UNCHANGED glueVars

\* Mutant: the hook runs and leaves the Sender in the slot.
ShutdownHook_keeps_sender ==
    /\ hooks > 0
    /\ ~hookRan
    /\ hookRan' = TRUE
    /\ UNCHANGED <<cell, sender, chan, fb, started, hooks>>
    /\ UNCHANGED <<thVars, spawnVars, runVars, ghostVars, qVars, wakeVars>>
    /\ UNCHANGED glueVars

\* The JVM shuts down and runs the registered hook "wake-shutdown":
\* guard.take().
ShutdownHook ==
    /\ hooks > 0
    /\ ~hookRan
    /\ hookRan' = TRUE
    /\ sender' = FALSE
    /\ UNCHANGED <<cell, chan, fb, started, hooks>>
    /\ UNCHANGED <<thVars, spawnVars, runVars, ghostVars, qVars, wakeVars>>
    /\ UNCHANGED glueVars

\* ---------------------------------------------------------------- the host
\* The looper of q quits: its pending messages are discarded and post returns
\* false from now on.
Quit(q) ==
    /\ alive[q]
    /\ alive' = [alive EXCEPT ![q] = FALSE]
    /\ queue' = [queue EXCEPT ![q] = <<>>]
    /\ UNCHANGED running
    /\ UNCHANGED <<thVars, spawnVars, runVars, ghostVars, fbVars, wakeVars>>
    /\ UNCHANGED glueVars

\* The steps of the process while no looper quits.
NextLive ==
    \/ \E th \in Threads, t \in Tasks, q \in Queues, k \in Kinds, n \in 0..MaxPending :
            spawn(th, t, q, k, n)
    \/ \E th \in Threads : init_fallback_thread(th)
    \/ \E th \in Threads : post_spawn(th)
    \/ \E q \in Queues : RunnableRun(q)
    \/ \E q \in Queues : PollReturn(q)
    \/ \E w \in 1..NumTasks * (MaxPending + 1), th \in Threads : wake(w, th)
    \/ FallbackDeliver
    \/ FallbackExit
    \/ ShutdownHook

Next ==
    \/ NextLive
    \/ \E q \in Queues : Quit(q)

Spec == Init /\ [][Next]_vars

\* The steps of the process when JNI calls of the wake path may return Err.
NextErr ==
    \/ Next
    \/ \E w \in 1..NumTasks * (MaxPending + 1), th \in Threads : wake_host_error(w, th)
    \/ FallbackDeliverPanic

SpecErr == Init /\ [][NextErr]_vars

\* The threads of the process keep running: the fallback thread is a started
\* Java thread blocked in recv that handles what recv returns, each looper
\* thread runs its queue, and a thread inside get_or_init comes out of it.
Fairness ==
    /\ WF_vars(FallbackDeliver)
    /\ WF_vars(FallbackExit)
    /\ \A q \in Queues : WF_vars(RunnableRun(q)) /\ WF_vars(PollReturn(q))
    /\ \A th \in Threads : WF_vars(init_fallback_thread(th)) /\ WF_vars(post_spawn(th))

\* The process with every host queue staying live and its threads scheduled.
LiveSpec == Init /\ [][NextLive]_vars /\ Fairness

\* ------------------------------------------------- a process with one future
\* The same steps when the application spawns a single future: the first
\* call of spawn_obj / spawn_local_obj is the only one.
NextLiveOne ==
    \/ \E th \in Threads, q \in Queues, k \in Kinds, n \in 0..MaxPending :
            spawn(th, 1, q, k, n)
    \/ \E th \in Threads : init_fallback_thread(th)
    \/ \E th \in Threads : post_spawn(th)
    \/ \E q \in Queues : RunnableRun(q)
    \/ \E q \in Queues : PollReturn(q)
    \/ \E w \in 1..NumTasks * (MaxPending + 1), th \in Threads : wake(w, th)
    \/ FallbackDeliver
    \/ FallbackExit
    \/ ShutdownHook

NextOne ==
    \/ NextLiveOne
    \/ \E q \in Queues : Quit(q)

SpecOne == Init /\ [][NextOne]_vars

NextErrOne ==
    \/ NextOne
    \/ \E w \in 1..NumTasks * (MaxPending + 1), th \in Threads : wake_host_error(w, th)
    \/ FallbackDeliverPanic

SpecErrOne == Init /\ [][NextErrOne]_vars

LiveSpecOne == Init /\ [][NextLiveOne]_vars /\ Fairness

\* ============================================================ service.rs
\* ------------------------------------------------------- register_service
\* One call of a RustService method on a handler object, with its arguments.
Call(m, intent, flags, startId) ==
    [method |-> m, intent |-> intent, flags |-> flags, startId |-> startId]

\* register_service: builds the on_create_hook around the factory and puts it
\* into RustService.onCreateHooks under the class. The factory is moved into
\* the hook and not called.
register_service ==
    /\ ~registered
    /\ registered' = TRUE
    /\ UNCHANGED <<sstate, hook, factoryCalls, handlerOf, refs, hlive, received, invoked,
                   svcCalls>>
    /\ UNCHANGED <<osVars, connVars, handleVars>>

\* on_create_hook, applied to the service object s: Arc::new(factory(env, arg)),
\* then four FnFunctions, each holding one strong reference to the Arc (three
\* clones and the original), stored in the four hook fields of s.
on_create_hook(s) ==
    LET h == factoryCalls + 1 IN
    /\ factoryCalls' = h
    /\ handlerOf' = [handlerOf EXCEPT ![s] = h]
    /\ hlive' = [hlive EXCEPT ![h] = "live"]
    /\ refs' = [refs EXCEPT ![h] = 4]
    /\ hook' = [hook EXCEPT ![s] = [f \in HookFields |-> h]]

\* Mutant: the hook reads the field "flags" into start_id and "startId" into flags.
on_start_command_hook_swapped(h, arg) ==
    received' = [received EXCEPT
        ![h] = Append(@, Call("on_start_command", arg.intent, arg.startId, arg.flags))]

\* on_start_command_hook: reads intent, flags and startId from arg and calls
\* service_clone.on_start_command(env, intent, flags, start_id).
on_start_command_hook(h, arg) ==
    received' = [received EXCEPT
        ![h] = Append(@, Call("on_start_command", arg.intent, arg.flags, arg.startId))]

\* on_bind_hook: service_clone.on_bind(env, arg).
on_bind_hook(h, arg) ==
    received' = [received EXCEPT ![h] = Append(@, Call("on_bind", arg, NoArg, NoArg))]

\* on_unbind_hook: service_clone.on_unbind(env, arg).
on_unbind_hook(h, arg) ==
    received' = [received EXCEPT ![h] = Append(@, Call("on_unbind", arg, NoArg, NoArg))]

\* on_rebind_hook: service.on_rebind(env, arg).
on_rebind_hook(h, arg) ==
    received' = [received EXCEPT ![h] = Append(@, Call("on_rebind", arg, NoArg, NoArg))]

\* ------------------------------------------ the host's RustService object
\* The host constructs a service object of the registered class.
NewService(s) ==
    /\ sstate[s] = "none"
    /\ sstate' = [sstate EXCEPT ![s] = "constructed"]
    /\ UNCHANGED <<registered, hook, factoryCalls, handlerOf, refs, hlive, received, invoked,
                   svcCalls>>
    /\ UNCHANGED <<osVars, connVars, handleVars>>

\* Service.onCreate(): the hook registered for the object's class is applied to
\* the object.
onCreate(s) ==
    /\ sstate[s] = "constructed"
    /\ registered
    /\ sstate' = [sstate EXCEPT ![s] = "created"]
    /\ on_create_hook(s)
    /\ UNCHANGED <<registered, received, invoked, svcCalls>>
    /\ UNCHANGED <<osVars, connVars, handleVars>>

\* What a callback between create and destroy does besides applying its hook.
Callback(s, call) ==
    /\ sstate[s] = "created"
    /\ svcCalls < MaxCallbacks
    /\ svcCalls' = svcCalls + 1
    /\ invoked' = [invoked EXCEPT ![s] = Append(@, call)]
    /\ UNCHANGED <<registered, sstate, hook, factoryCalls, handlerOf, refs, hlive>>
    /\ UNCHANGED <<osVars, connVars, handleVars>>

\* Service.onStartCommand(intent, flags, startId): onStartCommandHook is applied
\* to an object holding the three arguments.
onStartCommand(s, intent, flags, startId) ==
    /\ Callback(s, Call("on_start_command", intent, flags, startId))
    /\ on_start_command_hook(hook[s]["onStartCommandHook"],
                             [intent |-> intent, flags |-> flags, startId |-> startId])

\* Service.onBind(intent): onBindHook is applied to the intent.
onBind(s, intent) ==
    /\ Callback(s, Call("on_bind", intent, NoArg, NoArg))
    /\ on_bind_hook(hook[s]["onBindHook"], intent)

\* Service.onUnbind(intent): onUnbindHook is applied to the intent.
onUnbind(s, intent) ==
    /\ Callback(s, Call("on_unbind", intent, NoArg, NoArg))
    /\ on_unbind_hook(hook[s]["onUnbindHook"], intent)

\* Service.onRebind(intent): onRebindHook is applied to the intent.
onRebind(s, intent) ==
    /\ Callback(s, Call("on_rebind", intent, NoArg, NoArg))
    /\ on_rebind_hook(hook[s]["onRebindHook"], intent)

\* The strong count of h after the FnFunctions in the hook fields of s are closed.
refs_after_close(s, h) == refs[h] - Cardinality({f \in HookFields : hook[s][f] = h})

\* Service.onDestroy(): the four hooks of the object are closed; each closed
\* FnFunction drops its closure and with it one strong reference, and the
\* handler object is dropped with its last reference.
onDestroy(s) ==
    /\ sstate[s] = "created"
    /\ sstate' = [sstate EXCEPT ![s] = "destroyed"]
    /\ hook' = [hook EXCEPT ![s] = [f \in HookFields |-> NoHandler]]
    /\ refs' = [h \in Handlers |-> refs_after_close(s, h)]
    /\ hlive' = [h \in Handlers |->
                    IF hlive[h] = "live" /\ refs_after_close(s, h) = 0
                    THEN "dropped" ELSE hlive[h]]
    /\ UNCHANGED <<registered, factoryCalls, handlerOf, received, invoked, svcCalls>>
    /\ UNCHANGED <<osVars, connVars, handleVars>>

\* A registered service class and the host running the lifecycle of its objects.
SvcNext ==
    \/ register_service
    \/ \E s \in Services : NewService(s)
    \/ \E s \in Services : onCreate(s)
    \/ \E s \in Services, i \in Intents, f \in StartFlags, id \in StartIds :
            onStartCommand(s, i, f, id)
    \/ \E s \in Services, i \in Intents : onBind(s, i)
    \/ \E s \in Services, i \in Intents : onUnbind(s, i)
    \/ \E s \in Services, i \in Intents : onRebind(s, i)
    \/ \E s \in Services : onDestroy(s)

SvcSpec == Init /\ [][SvcNext]_vars

\* ------------------------------------------------ async_service_connection
\* The callbacks of android.content.ServiceConnection.
ConnCallbacks == {"onBindingDied", "onNullBinding", "onServiceConnected", "onServiceDisconnected"}

\* The event object RustServiceConnection adds to its stream for a callback.
event_object(cb, name, service) ==
    [class |-> CASE cb = "onBindingDied" -> "BindingDiedEvent"
                 [] cb = "onNullBinding" -> "NullBindingEvent"
                 [] cb = "onServiceConnected" -> "ServiceConnectedEvent"
                 [] cb = "onServiceDisconnected" -> "ServiceDisconnectedEvent",
     name |-> name,
     service |-> service]

\* A ServiceConnectionEvent.
Event(variant, name, service) ==
    [variant |-> variant, component_name |-> name, service |-> service]

\* Mutant: the last branch builds the variant of the branch above it.
mapped_stream_copied_branch(item) ==
    IF item.class = "BindingDiedEvent"
    THEN Event("BindingDied", item.name, NoBinder)
    ELSE IF item.class = "NullBindingEvent"
    THEN Event("NullBinding", item.name, NoBinder)
    ELSE IF item.class = "ServiceConnectedEvent"
    THEN Event("ServiceConnected", item.name, item.service)
    ELSE IF item.class = "ServiceDisconnectedEvent"
    THEN Event("ServiceConnected", item.name, NoBinder)
    ELSE "panic"

\* The closure of stream.map: the chain of is_instance_of tests that turns an
\* item of the Java stream into a ServiceConnectionEvent, reading the fields
\* "name" and, for a ServiceConnectedEvent, "service".
mapped_stream(item) ==
    IF item.class = "BindingDiedEvent"
    THEN Event("BindingDied", item.name, NoBinder)
    ELSE IF item.class = "NullBindingEvent"
    THEN Event("NullBinding", item.name, NoBinder)
    ELSE IF item.class = "ServiceConnectedEvent"
    THEN Event("ServiceConnected", item.name, item.service)
    ELSE IF item.class = "ServiceDisconnectedEvent"
    THEN Event("ServiceDisconnected", item.name, NoBinder)
    ELSE "panic"

\* async_service_connection: creates the RustServiceConnection, takes its
\* event stream and returns the connection with the mapped stream.
async_service_connection ==
    /\ ~conn
    /\ conn' = TRUE
    /\ UNCHANGED <<evQueue, delivered, yielded, consumer, cpolls>>
    /\ UNCHANGED <<osVars, svcVars, handleVars>>

\* The host invokes a callback of the connection: the event object is added to
\* the stream, and a consumer waiting on the stream is woken.
ConnCallback(cb, name, service) ==
    /\ conn
    /\ Len(delivered) < MaxEvents
    /\ delivered' = Append(delivered, [callback |-> cb, name |-> name, service |-> service])
    /\ evQueue' = Append(evQueue, event_object(cb, name, service))
    /\ consumer' = IF consumer = "parked" THEN "queued" ELSE consumer
    /\ UNCHANGED <<conn, yielded, cpolls>>
    /\ UNCHANGED <<osVars, svcVars, handleVars>>

\* A task that awaits stream.next() in a loop is spawned on a handler.
SpawnConsumer ==
    /\ conn
    /\ consumer = "none"
    /\ consumer' = "queued"
    /\ UNCHANGED <<conn, evQueue, delivered, yielded, cpolls>>
    /\ UNCHANGED <<osVars, svcVars, handleVars>>

\* One poll of the consuming task: every stream.next() is Ready while the
\* stream holds an item, each item going through the map closure; on the
\* empty stream next() is Pending and the task waits for the next event.
ConsumerPoll ==
    /\ consumer = "queued"
    /\ yielded' = yielded \o [i \in 1..Len(evQueue) |-> mapped_stream(evQueue[i])]
    /\ evQueue' = <<>>
    /\ consumer' = "parked"
    /\ cpolls' = cpolls + 1
    /\ UNCHANGED <<conn, delivered>>
    /\ UNCHANGED <<osVars, svcVars, handleVars>>

\* A connection, the host invoking its callbacks and a task consuming its stream.
ConnNext ==
    \/ async_service_connection
    \/ \E cb \in ConnCallbacks \ {"onServiceConnected"}, n \in Names :
            ConnCallback(cb, n, NoBinder)
    \/ \E n \in Names, b \in Binders : ConnCallback("onServiceConnected", n, b)
    \/ SpawnConsumer
    \/ ConsumerPoll

ConnSpec == Init /\ [][ConnNext]_vars

\* ================================================================= JHandler
\* env.find_class("android/os/Handler"): Ok on a host that has the class.
find_class(e) == e # "no_class"

\* Mutant: the result of get_method_id is not looked at.
get_method_id_unchecked(e) == TRUE

\* env.get_method_id(&class, "post", "(Ljava/lang/Runnable;)Z"): Ok on a host
\* whose Handler class has the method.
get_method_id(e) == e = "android"

\* The two `?` of from_env: Ok(Self { internal, post, env }) when both lookups
\* succeed, the lookup's Err otherwise; get_method_id is not called after a
\* failed find_class.
from_env(e, obj) ==
    /\ classLookups' = classLookups + 1
    /\ methodLookups' = IF find_class(e) THEN methodLookups + 1 ELSE methodLookups
    /\ IF find_class(e) /\ get_method_id(e)
       THEN /\ handles' = Append(handles, [env |-> e, internal |-> obj, post |-> "post"])
            /\ lookupErrs' = lookupErrs
       ELSE /\ handles' = handles
            /\ lookupErrs' = lookupErrs + 1

\* Mutant: post looks the class and the method up before each call.
JHandler_post_looks_up(h) ==
    /\ classLookups' = classLookups + 1
    /\ methodLookups' = methodLookups + 1
    /\ submits' = [submits EXCEPT ![h] = @ + 1]

\* JHandler::post called through handle h: call_method_unchecked on
\* self.internal with the method id stored in the handle.
JHandler_post(h) ==
    /\ classLookups' = classLookups
    /\ methodLookups' = methodLookups
    /\ submits' = [submits EXCEPT ![h] = @ + 1]

\* The submissions made so far.
Submissions == IF submits = <<>> THEN 0
               ELSE LET sum[i \in 0..Len(submits)] ==
                            IF i = 0 THEN 0 ELSE sum[i - 1] + submits[i]
                    IN  sum[Len(submits)]

\* A caller constructs a handle for the Handler object obj with the JNIEnv e.
NewHandle(e, obj) ==
    /\ Len(handles) + lookupErrs < MaxFromEnv
    /\ from_env(e, obj)
    /\ submits' = IF Len(handles') > Len(handles) THEN Append(submits, 0) ELSE submits
    /\ UNCHANGED <<osVars, svcVars, connVars>>

\* A caller (or post_spawn, through the handle inside the JHandlerSpawn) posts
\* a runnable through a handle it holds.
Submit(h) ==
    /\ h \in 1..Len(handles)
    /\ Submissions < MaxSubmits
    /\ JHandler_post(h)
    /\ UNCHANGED <<handles, lookupErrs>>
    /\ UNCHANGED <<osVars, svcVars, connVars>>

\* HandlerWaker::wake_direct with the JNIEnv e of the waking thread: a handle
\* is constructed for the waker's handler and the runnable is posted through
\* it; an Err of from_env is returned by `?` before anything is posted.
WakeDirect(e, obj) ==
    /\ Len(handles) + lookupErrs < MaxFromEnv
    /\ Submissions < MaxSubmits
    /\ from_env(e, obj)
    /\ submits' = IF Len(handles') > Len(handles) THEN Append(submits, 1) ELSE submits
    /\ UNCHANGED <<osVars, svcVars, connVars>>

\* Handles being constructed and used.
HandleNext ==
    \/ \E e \in Envs, q \in Queues : NewHandle(e, q)
    \/ \E h \in 1..MaxFromEnv : Submit(h)
    \/ \E e \in Envs, q \in Queues : WakeDirect(e, q)

HandleSpec == Init /\ [][HandleNext]_vars

\* ====================================================================== claims
\* Entries of task t's runnable in a sequence of runnables / of wakers.
Count(seq, t) == Cardinality({i \in DOMAIN seq : seq[i] = t})

InQueue(q, t) == Count(queue[q], t)

InQueues(t) == InQueue("qa", t) + InQueue("qb", t)

InChan(t) == Cardinality({i \in DOMAIN chan : wakers[chan[i]].runnable = t})

\* run() calls made by the host queues on the task's runnable.
Runs(t) == polls[t] + excs[t] + noops[t]

IsRunning(t) == \E q \in Queues : running[q] = t

\* C1: a future that is Pending on its first N polls and Ready on poll N+1 has
\* had close() called on its runnable exactly once after the host queue has
\* run the runnable N+1 times; close() is never called twice, and never before
\* the Ready poll. (Runnables of spawn_local made on a thread that is not the
\* queue's thread never reach the poll.)
C1_CompletionExactlyOnce ==
    \A t \in Tasks :
        /\ closeCalls[t] <= 1
        /\ closeCalls[t] = 1 => polls[t] = need[t] + 1
        /\ (/\ tstate[t] = "spawned"
            /\ thread_ok(t, tq[t])
            /\ Runs(t) >= need[t] + 1
            /\ ~IsRunning(t)) => closeCalls[t] = 1

C1_Witness ==
    \E t \in Tasks : need[t] = 1 /\ Runs(t) = 2 /\ closeCalls[t] = 1 /\ ~IsRunning(t)

\* C2: once a poll of a task's future has returned Ready the future is never
\* polled again, whatever wakes were queued before or issued after: every later
\* run() of the runnable leaves the poll count where it was.
C2_NoPollAfterReady ==
    \A t \in Tasks :
        lastPoll[t] = "Ready" => polls[t] = need[t] + 1 /\ ~IsRunning(t)

C2_Witness ==
    \E t \in Tasks : lastPoll[t] = "Ready" /\ noops[t] >= 1 /\ woken[t] >= 2

\* C3 as claimed: wake() on a waker whose task's poll has returned Ready raises
\* no panic and resubmits nothing, neither to the host queue nor to the
\* fallback channel.
C3_Original ==
    [][\A w \in 1..Len(wakers), th \in Threads, t \in Tasks :
        (wake(w, th) /\ wakers[w].runnable = t /\ lastPoll[t] = "Ready")
            => (panics' = panics /\ queue' = queue /\ chan' = chan)]_vars

\* C3 as amended: wake() after the Ready poll takes the same path as any wake:
\* from an attached thread it raises nothing and posts the (closed) runnable to
\* the task's queue, from an unattached thread it sends the waker on the
\* fallback channel while the sender is there; it polls nothing, and run() of
\* the resubmitted runnable is a no-op: no poll, no second close().
C3_WakeAfterReadyReposts ==
    /\ [][\A w \in 1..Len(wakers), th \in Threads, t \in Tasks :
            (wake(w, th) /\ wakers[w].runnable = t /\ lastPoll[t] = "Ready") =>
                /\ polls' = polls /\ closeCalls' = closeCalls /\ running' = running
                /\ th \in AttachedThreads =>
                    /\ panics' = panics /\ chan' = chan
                    /\ alive[tq[t]] => InQueue(tq[t], t)' = InQueue(tq[t], t) + 1
                /\ (th \notin AttachedThreads /\ sender) =>
                    /\ panics' = panics /\ queue' = queue
                    /\ InChan(t)' = InChan(t) + 1]_vars
    /\ [][\A q \in Queues, t \in Tasks :
            (RunnableRun(q) /\ Head(queue[q]) = t /\ lastPoll[t] = "Ready") =>
                /\ polls' = polls /\ closeCalls' = closeCalls /\ running' = running
                /\ noops'[t] = noops[t] + 1]_vars

C3_Witness ==
    \E t \in Tasks : late >= 1 /\ lastPoll[t] = "Ready" /\ woken[t] = 1 /\ noops[t] = 1

\* C4 as claimed: when a poll has returned Pending the task's runnable is
\* neither in a host queue nor in the fallback channel (until a later wake()).
C4_Original ==
    [][\A q \in Queues, t \in Tasks :
        (PollReturn(q) /\ running[q] = t /\ lastPoll'[t] = "Pending")
            => (InQueues(t) + InChan(t))' = 0]_vars

\* C4 as amended: a poll that returns Pending resubmits nothing: the step
\* leaves every host queue and the fallback channel as they were, so the
\* runnable is queued after it only as often as wake() calls made before the
\* poll returned (during it or earlier) are not yet consumed by a run(); with
\* no such wake() it is in no queue and not in the channel.
C4_PendingPostsNothing ==
    /\ [][\A q \in Queues, t \in Tasks :
            (PollReturn(q) /\ running[q] = t /\ lastPoll'[t] = "Pending")
                => (queue' = queue /\ chan' = chan)]_vars
    /\ [](\A t \in Tasks : InQueues(t) + InChan(t) + Runs(t) <= 1 + woken[t])

C4_Witness ==
    \E t \in Tasks :
        /\ lastPoll[t] = "Pending" /\ ~IsRunning(t) /\ polls[t] = 1
        /\ woken[t] = 0 /\ InQueues(t) + InChan(t) = 0

\* C5: spawn and spawn_local on a live queue return Ok, post the runnable
\* exactly once and poll nothing: from the return of spawn until the host
\* queue first runs the runnable (the queue staying live), the future has been
\* polled zero times, its runnable is in its queue exactly once and in no
\* other queue, and the queue is not idle. A spawn fails only on a dead queue.
C5_SpawnDefersPolling ==
    \A t \in Tasks :
        /\ (tstate[t] = "spawned" /\ Runs(t) = 0 /\ alive[tq[t]]) =>
            /\ polls[t] = 0 /\ lastPoll[t] = "none" /\ ~IsRunning(t)
            /\ InQueue(tq[t], t) = 1 /\ InQueues(t) = 1
            /\ queue[tq[t]] # <<>>
        /\ tstate[t] = "failed" => ~alive[tq[t]]
        /\ tstate[t] = "wrapped" => InQueues(t) = 0 /\ polls[t] = 0

C5_Witness ==
    \E t \in Tasks :
        /\ tstate[t] = "spawned" /\ Runs(t) = 0 /\ alive[tq[t]]
        /\ owner[t] # AnyThread /\ InQueue(tq[t], t) = 1

\* C6: wake() hands the runnable over and polls nothing: a wake() from an
\* attached thread leaves the future's poll count, its last poll result and
\* the running closures unchanged and (the queue being live) adds the runnable
\* to the task's host queue; the poll count changes only in a step in which a
\* host queue runs the runnable.
C6_WakeIsHandOff ==
    /\ [][\A w \in 1..Len(wakers), th \in AttachedThreads, t \in Tasks :
            (wake(w, th) /\ wakers[w].runnable = t) =>
                /\ polls' = polls /\ lastPoll' = lastPoll /\ running' = running
                /\ chan' = chan
                /\ alive[tq[t]] =>
                    /\ InQueue(tq[t], t)' = InQueue(tq[t], t) + 1
                    /\ queue'[tq[t]] # <<>>]_vars
    /\ [][polls' # polls => \E q \in Queues : RunnableRun(q)]_vars

C6_Witness ==
    \E t \in Tasks :
        /\ lastPoll[t] = "Pending" /\ ~IsRunning(t) /\ polls[t] = 1
        /\ woken[t] = 1 /\ InQueue(tq[t], t) = 1 /\ chan = <<>> /\ late = 0

\* Everything posted for the task reaches its queue: the queue is live and no
\* wake() panicked.
NothingLost(t) == tstate[t] = "spawned" /\ alive[tq[t]] /\ panics = 0

\* C7: K >= 1 wake() calls between two polls of a pending task resubmit its
\* runnable (once per call while nothing is lost, so at least once), and one
\* run() of the runnable by the host queue polls the future at most once:
\* exactly once while the runnable holds its closure, not at all afterwards,
\* and never a future of another task.
C7_OnePollPerRun ==
    /\ [](\A t \in Tasks :
            NothingLost(t) => InQueues(t) + InChan(t) + Runs(t) = 1 + woken[t])
    /\ [][\A q \in Queues, t \in Tasks :
            (RunnableRun(q) /\ Head(queue[q]) = t) =>
                /\ \A u \in Tasks \ {t} : polls'[u] = polls[u]
                /\ polls'[t] = IF closure[t] /\ thread_ok(t, q)
                               THEN polls[t] + 1 ELSE polls[t]]_vars

C7_Witness ==
    \E t \in Tasks :
        /\ woken[t] = 2 /\ polls[t] = 2 /\ lastPoll[t] = "Pending" /\ IsRunning(t)
        /\ InQueues(t) + InChan(t) = 1

\* C8: the waker cell of a task is initialised at most once and every poll
\* of the task is handed that one waker, which holds the task's handler and
\* the task's own runnable.
C8_OneWakerPerTask ==
    \A t \in Tasks :
        /\ inits[t] <= 1
        /\ Cardinality(seen[t]) <= 1
        /\ \A w \in seen[t] :
            /\ w \in 1..Len(wakers)
            /\ wakers[w] = [handler |-> tq[t], runnable |-> t]
        /\ \A u \in Tasks \ {t} : seen[t] \cap seen[u] = {}

C8_Witness ==
    \E t \in Tasks : polls[t] = 2 /\ Cardinality(seen[t]) = 1 /\ inits[t] = 1

\* C10: the fallback thread, its channel and its shutdown hook are created at
\* most once, however many threads spawn at the same time on whichever queues.
C10_OneFallbackThread ==
    /\ started <= 1
    /\ hooks <= 1
    /\ (cell = "set") = (started = 1)

C10_Witness ==
    /\ started = 1
    /\ \A th \in AttachedThreads : pc[th] = "blocked"
    /\ tq[1] # tq[2]

\* The next poll of the task's future will not be its last one missed: the
\* runnable holds its closure, can run on its queue's thread, and the future
\* has not yet been polled to Ready.
StillPending(t) ==
    /\ tstate[t] = "spawned" /\ closure[t] /\ thread_ok(t, tq[t])
    /\ polls[t] <= need[t]

\* C9: a wake() from a thread that is not attached to the JVM is delivered,
\* the host queues staying live and the threads being scheduled fairly: the
\* fallback thread takes every waker out of the channel and posts its runnable
\* to the task's queue, and a pending future whose waker is in the channel is
\* polled again.
C9_FallbackWakeDelivered ==
    /\ (chan # <<>>) ~> (chan = <<>>)
    /\ [][FallbackDeliver =>
            \A t \in Tasks : wakers[Head(chan)].runnable = t =>
                InQueue(tq[t], t)' = InQueue(tq[t], t) + 1]_vars
    /\ \A t \in Tasks :
        (InChan(t) > 0 /\ StillPending(t) /\ ~IsRunning(t)) ~> IsRunning(t)

C9_Witness ==
    \E t \in Tasks :
        /\ lastPoll[t] = "Ready" /\ need[t] = 1 /\ woken[t] = 1
        /\ wakeCalls = 1 /\ chan = <<>> /\ fb = "running" /\ sender
        /\ \A q \in Queues : alive[q] /\ queue[q] = <<>>

\* C11: under any interleaving of wake() calls from any threads, a wake()
\* made while a poll of the same task is executing included, a task is polled
\* by at most one thread at a time and a queue executes one runnable at a
\* time: the wake() starts no poll, it only adds an entry to the task's queue
\* (or to the fallback channel), and the host queue runs a runnable only when
\* none of its runnables, and no poll of that task anywhere, is executing.
C11_NoConcurrentPolls ==
    /\ [](\A t \in Tasks : Cardinality({q \in Queues : running[q] = t}) <= 1)
    /\ [][\A w \in 1..Len(wakers), th \in Threads, t \in Tasks :
            (wake(w, th) /\ wakers[w].runnable = t /\ IsRunning(t)) =>
                /\ polls' = polls /\ running' = running
                /\ (th \in AttachedThreads /\ alive[tq[t]]) =>
                    InQueue(tq[t], t)' = InQueue(tq[t], t) + 1
                /\ (th \notin AttachedThreads /\ fallback_can_send) =>
                    InChan(t)' = InChan(t) + 1]_vars
    /\ [][\A q \in Queues, t \in Tasks :
            (RunnableRun(q) /\ Head(queue[q]) = t) =>
                running[q] = NoTask /\ ~IsRunning(t)]_vars

C11_Witness ==
    \E t \in Tasks :
        /\ IsRunning(t) /\ polls[t] = 1 /\ woken[t] = 2
        /\ InQueue(tq[t], t) = 1 /\ InChan(t) = 1

\* C12: every poll of a spawned future is made by the thread of the host queue
\* the task was spawned on, inside a run() of the task's runnable; the calls
\* of spawn and spawn_local, wake() on any thread and the fallback thread's
\* loop start no poll and finish none: they only post or enqueue.
C12_PollsOnQueueThread ==
    /\ [](\A q \in Queues :
            running[q] # NoTask => tq[running[q]] = q /\ thread_ok(running[q], q))
    /\ [][\A t \in Tasks : polls'[t] # polls[t] =>
            RunnableRun(tq[t]) /\ running'[tq[t]] = t]_vars
    /\ [][(\/ \E th \in Threads, t \in Tasks, q \in Queues, k \in Kinds,
                 n \in 0..MaxPending : spawn(th, t, q, k, n)
           \/ \E th \in Threads : init_fallback_thread(th) \/ post_spawn(th)
           \/ \E w \in 1..Len(wakers), th \in Threads : wake(w, th)
           \/ FallbackDeliver)
            => (polls' = polls /\ running' = running /\ lastPoll' = lastPoll)]_vars

\* A task spawned from a thread other than its queue's thread is inside its
\* second poll, which a wake() asked for.
C12_Witness ==
    \E t \in Tasks :
        /\ IsRunning(t) /\ polls[t] = 2 /\ woken[t] = 1
        /\ running[tq[t]] = t /\ spawner[t] # Looper(tq[t])

\* A HandlerWaker of the task's runnable exists.
HasWaker(t) == \E w \in 1..Len(wakers) : wakers[w].runnable = t

ForeignLocal(t) == owner[t] \notin {AnyThread, Looper(tq[t])}

\* C14: spawn_local called on a thread other than the host queue's thread
\* returns Ok (the queue being live) and raises nothing; the violation shows
\* only when the host queue runs the runnable on its own thread: that run()
\* throws a LocalThreadException, and the future is never polled: not by the
\* queue's thread, not by any other.
C14_LocalThreadViolation ==
    /\ [](\A t \in Tasks :
            ForeignLocal(t) =>
                /\ tstate[t] = "failed" => ~alive[tq[t]]
                /\ polls[t] = 0 /\ lastPoll[t] = "none" /\ closeCalls[t] = 0
                /\ ~IsRunning(t) /\ ~HasWaker(t)
                /\ Runs(t) = excs[t])
    /\ [][\A q \in Queues, t \in Tasks :
            (RunnableRun(q) /\ Head(queue[q]) = t /\ ForeignLocal(t)) =>
                /\ excs'[t] = excs[t] + 1
                /\ polls' = polls /\ running' = running]_vars
    /\ [][excs' # excs => \E q \in Queues : RunnableRun(q)]_vars
    /\ [](\A t \in Tasks : excs[t] > 0 => ForeignLocal(t))

C14_Witness ==
    \E t \in Tasks :
        /\ ForeignLocal(t) /\ spawner[t] = owner[t] /\ tstate[t] = "spawned"
        /\ excs[t] = 1 /\ polls[t] = 0 /\ InQueues(t) = 0

\* C15: spawn (a Send future) called on an attached thread other than the host
\* queue's thread is accepted like any other spawn: it fails only on a queue
\* that has shut down, its runnable is bound to no thread, and when the host
\* queue runs the runnable on the queue's thread the future is polled there
\* and no LocalThreadException is thrown.
C15_SpawnFromOtherThread ==
    /\ [](\A t \in Tasks :
            (spawner[t] \in AttachedThreads /\ owner[t] = AnyThread) =>
                /\ tstate[t] = "failed" => ~alive[tq[t]]
                /\ excs[t] = 0
                /\ Runs(t) = polls[t] + noops[t])
    /\ [][\A q \in Queues, t \in Tasks :
            (/\ RunnableRun(q) /\ Head(queue[q]) = t
             /\ owner[t] = AnyThread /\ spawner[t] # Looper(q) /\ closure[t]) =>
                /\ q = tq[t]
                /\ polls'[t] = polls[t] + 1 /\ running'[q] = t
                /\ excs' = excs]_vars
    /\ [][\A th \in Threads, t \in Tasks, q \in Queues, n \in 0..MaxPending :
            spawn(th, t, q, "send", n) => owner'[t] = AnyThread /\ spawner'[t] = th]_vars

C15_Witness ==
    \E t \in Tasks :
        /\ owner[t] = AnyThread /\ spawner[t] \in AttachedThreads \ {Looper(tq[t])}
        /\ tstate[t] = "spawned" /\ lastPoll[t] = "Ready" /\ excs[t] = 0

\* C16: the runnable holds the closure, and with it the future, its captures
\* and the waker cell, from the spawn call through every Pending poll and
\* every wake(); it lets go of them in the very run() whose poll returns Ready,
\* by the close() of that run, and in no other step: once that run() has
\* returned the closure and the waker cell are gone.
C16_CapturesReleasedAtReady ==
    /\ [](\A t \in Tasks :
            tstate[t] \in {"wrapped", "spawned"} =>
                closure[t] = (lastPoll[t] # "Ready"))
    /\ [](\A t \in Tasks : lastPoll[t] = "Ready" => wakerCell[t] = NoWaker)
    /\ [][\A t \in Tasks :
            (closure[t] /\ ~closure'[t]) =>
                /\ PollReturn(tq[t]) /\ running[tq[t]] = t
                /\ lastPoll'[t] = "Ready"
                /\ closeCalls'[t] = closeCalls[t] + 1]_vars
    /\ [][\A w \in 1..Len(wakers), th \in Threads :
            wake(w, th) => closure' = closure /\ wakerCell' = wakerCell]_vars

C16_Witness ==
    \E t \in Tasks :
        /\ need[t] = 1 /\ lastPoll[t] = "Ready" /\ woken[t] = 1 /\ polls[t] = 2
        /\ ~closure[t] /\ HasWaker(t) /\ ~IsRunning(t)

\* C17: the path of a wake() is chosen by the calling thread. On a thread
\* attached to the JVM it posts the task's runnable to the task's Handler (one
\* more entry in that queue while its looper has not quit), touches no other
\* queue and sends nothing on the fallback channel. On a thread that is not
\* attached it posts nothing, and, the channel's sender being there, sends
\* exactly one request, the waker itself, on the fallback channel.
C17_PathPerWake ==
    [][\A w \in 1..Len(wakers), th \in Threads, t \in Tasks :
        (wake(w, th) /\ wakers[w].runnable = t) =>
            IF th \in AttachedThreads
            THEN /\ chan' = chan /\ panics' = panics
                 /\ \A q \in Queues \ {tq[t]} : queue'[q] = queue[q]
                 /\ queue'[tq[t]] = IF alive[tq[t]] THEN Append(queue[tq[t]], t)
                                    ELSE queue[tq[t]]
            ELSE /\ queue' = queue
                 /\ sender => (chan' = Append(chan, w) /\ panics' = panics)]_vars

C17_Witness ==
    \E t \in Tasks :
        /\ woken[t] = 2 /\ lastPoll[t] = "Pending" /\ ~IsRunning(t) /\ polls[t] = 1
        /\ InQueue(tq[t], t) = 1 /\ InChan(t) = 1 /\ sender

\* C18 as claimed: the fallback thread is started by the wake path: the step
\* that starts it is the first wake() made on a thread that is not attached.
C18_Original ==
    [][(fb # "running" /\ fb' = "running") =>
        \E w \in 1..Len(wakers), th \in Threads \ AttachedThreads : wake(w, th)]_vars

\* C18 as amended: the wake path never starts the fallback thread: no wake()
\* changes FALLBACK_SENDER, the number of threads started or of hooks
\* registered. The thread has been started by a spawn before any waker exists,
\* so it is already running (or has already exited after the shutdown hook)
\* when the first wake() needs the fallback path; a request in the channel
\* always finds it running.
C18_WakeNeverStartsThread ==
    /\ [][\A w \in 1..Len(wakers), th \in Threads :
            wake(w, th) =>
                started' = started /\ hooks' = hooks /\ cell' = cell /\ fb' = fb]_vars
    /\ [](Len(wakers) > 0 => started = 1 /\ cell = "set" /\ fb # "none")
    /\ [](wakeCalls > 0 => started = 1)
    /\ [](chan # <<>> => fb = "running")

C18_Witness ==
    /\ wakeCalls = 1 /\ Len(chan) = 1 /\ started = 1 /\ fb = "running"
    /\ \A t \in Tasks : woken[t] = 1 => polls[t] = 1 /\ lastPoll[t] = "Pending"

\* C19: the fallback thread is started during the first spawn or spawn_local
\* call made in the process, before any spawn call has returned, and with it
\* the shutdown hook is registered; from then on it runs until the JVM shuts
\* down: it exits only after the shutdown hook has run, and once the hook has
\* run it does exit.
C19_StartedAtFirstSpawn ==
    /\ [](\A t \in Tasks :
            tstate[t] \in {"spawned", "failed"} =>
                started = 1 /\ hooks = 1 /\ cell = "set")
    /\ [][started' # started =>
            \E th \in AttachedThreads :
                /\ init_fallback_thread(th)
                /\ cur[th] # NoTask /\ tstate[cur[th]] = "wrapped"
                /\ \A t \in Tasks : tstate[t] \in {"none", "wrapped"}]_vars
    /\ []((started = 1 /\ ~hookRan) => (fb = "running" /\ sender))
    /\ [](fb = "exited" => hookRan)
    /\ hookRan ~> (fb = "exited")

C19_Witness ==
    /\ started = 1 /\ fb = "exited" /\ hookRan
    /\ \E t \in Tasks : tstate[t] = "spawned" /\ polls[t] = 0 /\ wakeCalls = 0

\* C20: the shutdown hook empties the slot that held the channel's only
\* Sender, and the slot stays empty; as a consequence the receive loop of the
\* fallback thread ends: the thread posts what is still in the channel and
\* then exits, without a panic, instead of blocking in recv forever.
C20_HookEndsReceiveLoop ==
    /\ [][ShutdownHook => (sender /\ ~sender' /\ chan' = chan)]_vars
    /\ [](hookRan => ~sender)
    /\ [][(fb = "running" /\ fb' = "exited") =>
            (~sender /\ chan = <<>> /\ panics' = panics /\ queue' = queue)]_vars
    /\ [][fb = "exited" => fb' = "exited"]_vars
    /\ (hookRan /\ chan # <<>>) ~> (chan = <<>> /\ fb = "exited")
    /\ (hookRan /\ fb = "running") ~> (fb = "exited")

C20_Witness ==
    /\ hookRan /\ fb = "exited" /\ ~sender /\ chan = <<>> /\ panics = 0
    /\ \E t \in Tasks : woken[t] = 1 /\ polls[t] = 2 /\ wakeCalls = 1

\* C21 as claimed: a wake() on a thread that is not attached, made after the
\* shutdown hook has taken the channel's Sender, is dropped silently: it
\* raises no panic, posts nothing and sends nothing.
C21_Original ==
    [][\A w \in 1..Len(wakers), th \in Threads \ AttachedThreads :
        (wake(w, th) /\ hookRan) =>
            (panics' = panics /\ queue' = queue /\ chan' = chan)]_vars

\* C21, what the code does: such a wake() posts nothing and sends nothing, and
\* it panics in the calling thread.
C21_WakeAfterTeardownPanics ==
    [][\A w \in 1..Len(wakers), th \in Threads \ AttachedThreads :
        (wake(w, th) /\ hookRan) =>
            (panics' = panics + 1 /\ queue' = queue /\ chan' = chan)]_vars

C21_Witness ==
    /\ hookRan /\ ~sender /\ panics = 1 /\ wakeCalls = 1
    /\ \E t \in Tasks : woken[t] = 1 /\ lastPoll[t] = "Pending" /\ InQueues(t) + InChan(t) = 0

C24_FallbackExactlyOnce ==
    /\ [][chan' # chan =>
            \/ \E w \in 1..Len(wakers), th \in Threads \ AttachedThreads :
                    wake(w, th) /\ chan' = Append(chan, w) /\ queue' = queue
            \/ FallbackDeliver /\ chan' = Tail(chan)]_vars
    /\ [][\A t \in Tasks :
            (FallbackDeliver /\ wakers[Head(chan)].runnable = t) =>
                /\ queue'[tq[t]] = Append(queue[tq[t]], t)
                /\ \A q \in Queues \ {tq[t]} : queue'[q] = queue[q]
                /\ InChan(t)' = InChan(t) - 1]_vars
    /\ [](\A t \in Tasks :
            (tstate[t] = "spawned" /\ panics = 0) =>
                InQueues(t) + InChan(t) + Runs(t) = 1 + woken[t])
    /\ \A t \in Tasks : (InChan(t) > 0) ~> (InChan(t) = 0)

C24_Witness ==
    \E t \in Tasks :
        /\ wakeCalls = 2 /\ woken[t] = 2 /\ polls[t] = 1 /\ lastPoll[t] = "Pending"
        /\ Len(chan) = 1 /\ InChan(t) = 1 /\ queue[tq[t]] = <<t>>
        /\ fb = "running" /\ ~hookRan /\ ~IsRunning(t)

\* The task sits with a Pending future and its runnable neither queued, nor in
\* the channel, nor running: only a wake() gets it out of there.
Parked(t) ==
    lastPoll[t] = "Pending" /\ ~IsRunning(t) /\ InQueues(t) + InChan(t) = 0

\* C25: a spawned future that is Ready after finitely many Pending polls
\* reaches its Ready poll and has close() called on its runnable, provided no
\* looper quits, the threads are scheduled fairly and every Pending poll is
\* followed by a wake() that resubmits the runnable (the task is never left
\* parked for ever). Runnables of spawn_local made on a thread that is not
\* the queue's thread are excepted: they are never polled.
C25_ProgressToCompletion ==
    \A t \in Tasks :
        ([]<>(~Parked(t))) =>
            [](((tstate[t] = "spawned" /\ ~ForeignLocal(t)))
                => <>(lastPoll[t] = "Ready" /\ closeCalls[t] = 1))

C25_Witness ==
    \A t \in Tasks :
        /\ need[t] = 1 /\ polls[t] = 2 /\ woken[t] = 1
        /\ lastPoll[t] = "Ready" /\ closeCalls[t] = 1

\* C26: with several queues and tasks sharing the one fallback channel, every
\* post made for a task, by wake() or by the fallback thread, goes to the
\* Handler the task was spawned on and carries the task's own runnable: a
\* runnable is only ever in its own task's queue, every waker holds its own
\* task's handler and runnable, and a wake() or a delivery of the fallback
\* thread changes the queue and channel entries of no other task.
C26_WakesStayWithTheirTask ==
    /\ [](\A q \in Queues, t \in Tasks : InQueue(q, t) > 0 => q = tq[t])
    /\ [](\A w \in 1..Len(wakers) :
            /\ wakers[w].runnable \in Tasks
            /\ wakers[w].handler = tq[wakers[w].runnable]
            /\ w \in seen[wakers[w].runnable])
    /\ [](\A i \in 1..Len(chan) : chan[i] \in 1..Len(wakers))
    /\ [][\A w \in 1..Len(wakers), th \in Threads, t \in Tasks :
            (wake(w, th) /\ w \in seen[t]) =>
                \A u \in Tasks \ {t}, q \in Queues :
                    /\ InQueue(q, u)' = InQueue(q, u)
                    /\ InChan(u)' = InChan(u)]_vars
    /\ [][\A t \in Tasks :
            (FallbackDeliver /\ Head(chan) \in seen[t]) =>
                /\ alive[tq[t]] => InQueue(tq[t], t)' = InQueue(tq[t], t) + 1
                /\ \A u \in Tasks \ {t}, q \in Queues :
                    InQueue(q, u)' = InQueue(q, u)]_vars

C26_Witness ==
    /\ tq[1] # tq[2] /\ Len(chan) = 1 /\ InChan(2) = 1
    /\ woken[1] = 1 /\ woken[2] = 1
    /\ queue[tq[1]] = <<1>> /\ queue[tq[2]] = <<>>
    /\ polls[1] = 1 /\ polls[2] = 1

\* C27: JHandler::post hands the runnable to the host queue and runs nothing:
\* a step that adds a runnable to a queue (a spawn, a wake(), a delivery of
\* the fallback thread) runs no runnable; a runnable is run only by its own
\* host queue taking it from the head of its messages, once for each time the
\* queue comes to it, and never more often than it was posted.
C27_PostDoesNotRun ==
    /\ [][(\E q \in Queues : Len(queue'[q]) > Len(queue[q])) =>
            (\A t \in Tasks : Runs(t)' = Runs(t)) /\ running' = running]_vars
    /\ [][\A t \in Tasks :
            Runs(t)' # Runs(t) =>
                /\ RunnableRun(tq[t]) /\ Head(queue[tq[t]]) = t
                /\ Runs(t)' = Runs(t) + 1
                /\ queue'[tq[t]] = Tail(queue[tq[t]])]_vars
    /\ [][\A q \in Queues, t \in Tasks :
            (RunnableRun(q) /\ Head(queue[q]) = t) => Runs(t)' = Runs(t) + 1]_vars
    /\ [](\A t \in Tasks : Runs(t) + InQueues(t) <= 1 + woken[t])

\* The runnable was run once for the spawn; the post of a wake() has queued
\* it again and that entry has not been run.
C27_Witness ==
    /\ tstate[1] = "spawned" /\ Runs(1) = 1 /\ ~IsRunning(1)
    /\ lastPoll[1] = "Pending" /\ woken[1] = 1 /\ wakeCalls = 1
    /\ queue[tq[1]] = <<1>> /\ chan = <<>>

\* C30: wake requests that go through the fallback channel are redelivered in
\* the order they were sent: wake_fallback puts its request behind the
\* requests already in the channel, the running fallback thread always takes
\* the oldest request and posts that request's runnable to that request's
\* handler, and no other step reorders the channel. So of two requests in the
\* channel the one sent first is posted first.
C30_FallbackFifo ==
    /\ [][Len(chan') > Len(chan) =>
            \E w \in 1..Len(wakers) : chan' = Append(chan, w)]_vars
    /\ [][Len(chan') < Len(chan) =>
            /\ chan' = Tail(chan)
            /\ queue' = post(wakers[Head(chan)].handler, wakers[Head(chan)].runnable)]_vars
    /\ [][Len(chan') = Len(chan) => chan' = chan]_vars

\* Two requests for different tasks were in the channel and the one sent
\* first has been posted: it is in its handler's queue while the second is
\* still in the channel.
C30_Witness ==
    /\ Len(chan) = 1 /\ wakers[chan[1]].runnable = 2
    /\ wakeCalls = 2 /\ woken[1] = 1 /\ woken[2] = 1
    /\ polls[1] = 1 /\ lastPoll[1] = "Pending" /\ polls[2] = 1 /\ lastPoll[2] = "Pending"
    /\ queue[tq[1]] = <<1>> /\ ~IsRunning(1) /\ ~IsRunning(2)
    /\ fb = "running" /\ panics = 0

\* C28: for a service registered with register_service the factory is called
\* by onCreate and by nothing else (not by the registration, not by the
\* construction of the host object), once for each created service object;
\* every bind / unbind / rebind / startCommand callback the host makes on an
\* object between its create and its destroy reaches the handler object that
\* object's factory call produced, as the matching method and with the host's
\* intent, flags and start id, and reaches no other handler; the handler
\* object lives while its service is created and is dropped by onDestroy.
C28_ServiceLifecycle ==
    /\ [][factoryCalls' # factoryCalls =>
            \E s \in Services :
                /\ sstate[s] = "constructed" /\ sstate'[s] = "created"
                /\ factoryCalls' = factoryCalls + 1
                /\ handlerOf'[s] = factoryCalls']_vars
    /\ [](\A s \in Services :
            /\ sstate[s] \in {"none", "constructed"} => handlerOf[s] = NoHandler
            /\ sstate[s] \in {"created", "destroyed"} =>
                /\ handlerOf[s] \in Handlers
                /\ received[handlerOf[s]] = invoked[s]
                /\ \A s2 \in Services \ {s} : handlerOf[s2] # handlerOf[s]
            /\ sstate[s] = "created" => hlive[handlerOf[s]] = "live"
            /\ sstate[s] = "destroyed" => hlive[handlerOf[s]] = "dropped")
    /\ [](factoryCalls = Cardinality({s \in Services : sstate[s] \in {"created", "destroyed"}}))
    /\ [](\A h \in Handlers :
            (\A s \in Services : handlerOf[s] # h) => received[h] = <<>> /\ hlive[h] = "none")

\* Both service objects were created; the first took a startCommand with
\* START_FLAG_RETRY and start id 42 and was destroyed, its handler dropped;
\* the second took a bind and is still created, its handler live.
C28_Witness ==
    /\ sstate[1] = "destroyed" /\ sstate[2] = "created"
    /\ handlerOf[1] # handlerOf[2]
    /\ invoked[1] = <<Call("on_start_command", "i1", START_FLAG_RETRY, 42)>>
    /\ received[handlerOf[1]] = invoked[1]
    /\ received[handlerOf[2]] = <<Call("on_bind", "i2", NoArg, NoArg)>>
    /\ hlive[handlerOf[1]] = "dropped" /\ hlive[handlerOf[2]] = "live"

\* The ServiceConnectionEvent that stands for one callback of the host.
EventOf(d) ==
    Event(CASE d.callback = "onBindingDied" -> "BindingDied"
            [] d.callback = "onNullBinding" -> "NullBinding"
            [] d.callback = "onServiceConnected" -> "ServiceConnected"
            [] d.callback = "onServiceDisconnected" -> "ServiceDisconnected",
          d.name, d.service)

EventsOf(ds) == [i \in 1..Len(ds) |-> EventOf(ds[i])]

\* C29: the stream of async_service_connection carries one event for each
\* ServiceConnection callback, in the order of the callbacks and each as the
\* variant of its callback with the callback's component name (and binder):
\* what the consumer has been yielded, followed by what the stream still
\* holds, is at all times the sequence of the callbacks made so far. Nothing
\* is yielded before the consuming task is polled, so the events delivered
\* until then are all held; and a poll of a task that keeps awaiting next()
\* leaves the task with every event delivered so far, the first poll included.
C29_StreamCarriesCallbacks ==
    /\ [](yielded \o [i \in 1..Len(evQueue) |-> mapped_stream(evQueue[i])] = EventsOf(delivered))
    /\ [](cpolls = 0 => yielded = <<>> /\ Len(evQueue) = Len(delivered))
    /\ [][cpolls' # cpolls =>
            /\ cpolls' = cpolls + 1
            /\ yielded' = EventsOf(delivered)
            /\ evQueue' = <<>>]_vars

\* Three callbacks were made before the consuming task was polled, and its
\* one poll yielded the three events.
C29_Witness ==
    /\ cpolls = 1
    /\ delivered = << [callback |-> "onBindingDied", name |-> "n1", service |-> NoBinder],
                      [callback |-> "onServiceConnected", name |-> "n2", service |-> "b1"],
                      [callback |-> "onServiceDisconnected", name |-> "n2", service |-> NoBinder] >>
    /\ yielded = << Event("BindingDied", "n1", NoBinder),
                    Event("ServiceConnected", "n2", "b1"),
                    Event("ServiceDisconnected", "n2", NoBinder) >>
    /\ evQueue = <<>>

\* C31 as stated: the waker cell is initialized at the first poll that returns
\* non-ready, so a task whose polls all return Ready has no waker built.
C31_Original ==
    \A t \in Tasks : inits[t] > 0 => need[t] > 0

\* C31: the waker cell of a task is initialized exactly once, by the task's
\* first run that reaches the poll and before the future is polled, whatever
\* that poll returns (also when it returns Ready); the waker is built from the
\* runnable being run and the handler the task was spawned through; every
\* later poll of the task is given the cell as it is, no waker is built and no
\* waker ever changes.
C31_WakerCellInit ==
    /\ [][\A t \in Tasks :
            inits'[t] # inits[t] =>
                /\ polls[t] = 0 /\ polls'[t] = 1
                /\ inits[t] = 0 /\ inits'[t] = 1
                /\ running'[tq[t]] = t
                /\ wakerCell[t] = NoWaker /\ wakerCell'[t] = Len(wakers')
                /\ wakers' = Append(wakers, [handler |-> tq[t], runnable |-> t])]_vars
    /\ [][\A t \in Tasks :
            (polls[t] >= 1 /\ polls'[t] # polls[t]) =>
                /\ wakerCell'[t] = wakerCell[t]
                /\ wakerCell[t] # NoWaker
                /\ wakers' = wakers
                /\ inits'[t] = inits[t]]_vars
    /\ [][\A w \in 1..Len(wakers) : Len(wakers') >= w /\ wakers'[w] = wakers[w]]_vars
    /\ [](\A t \in Tasks : polls[t] >= 1 => inits[t] = 1)
    /\ [](\A t \in Tasks : polls[t] = 0 => inits[t] = 0 /\ wakerCell[t] = NoWaker)

\* The task is polled a second time, with the waker built at its first poll.
C31_Witness ==
    /\ need[1] = 1 /\ polls[1] = 2 /\ IsRunning(1) /\ inits[1] = 1
    /\ lastPoll[1] = "Pending" /\ Len(wakers) = 1
    /\ wakers[wakerCell[1]] = [handler |-> tq[1], runnable |-> 1]

\* C32: the class and the post method id are looked up by the construction of
\* a handle and by nothing else: each from_env call looks the class up once
\* and, the class found, the method once, so with no failed lookup both
\* counts equal the number of handles constructed; a post through a handle
\* that exists looks nothing up, however many posts it takes.
C32_LookupPerHandle ==
    /\ [](classLookups = Len(handles) + lookupErrs)
    /\ [](Len(handles) <= methodLookups /\ methodLookups <= classLookups)
    /\ [](lookupErrs = 0 => classLookups = Len(handles) /\ methodLookups = Len(handles))
    /\ [][(Submissions' # Submissions /\ Len(handles') = Len(handles)) =>
            classLookups' = classLookups /\ methodLookups' = methodLookups]_vars
    /\ [][(classLookups' # classLookups \/ methodLookups' # methodLookups) =>
            /\ Len(handles') + lookupErrs' = Len(handles) + lookupErrs + 1
            /\ classLookups' = classLookups + 1]_vars

\* One handle took three posts with the one lookup of its construction.
C32_Witness ==
    /\ Len(handles) = 1 /\ submits = <<3>>
    /\ classLookups = 1 /\ methodLookups = 1 /\ lookupErrs = 0

\* C33: on a host without android.os.Handler, or whose Handler has no post
\* method, from_env returns the Err of the lookup and produces no handle:
\* the handles stay as they were and nothing is posted by that call; every
\* handle there is was made on a host with both, and every post went through
\* one of them.
C33_LookupErrorNoHandle ==
    /\ [][\A e \in Envs \ {"android"}, q \in Queues :
            (NewHandle(e, q) \/ WakeDirect(e, q)) =>
                /\ handles' = handles
                /\ submits' = submits
                /\ lookupErrs' = lookupErrs + 1]_vars
    /\ [](\A h \in 1..Len(handles) : handles[h].env = "android")
    /\ [](Len(submits) = Len(handles))

\* from_env has failed once for the missing class and once for the missing
\* method; there is no handle and nothing was posted.
C33_Witness ==
    /\ lookupErrs = 2 /\ classLookups = 2 /\ methodLookups = 1
    /\ handles = <<>> /\ submits = <<>>

\* C34: no wake-up is lost to a running poll, the host queues staying live: a
\* wake() made while the task's future is being polled (its first poll
\* included) adds one entry for the task's runnable, to its host queue from
\* an attached thread, to the fallback channel from another thread while the
\* channel takes requests; the returning poll removes no entry; and when the
\* poll is one that returns Pending, the runnable is run and the future
\* polled again after it.
C34_NoLostWakeup ==
    /\ [][\A w \in 1..Len(wakers), th \in Threads, t \in Tasks :
            (wake(w, th) /\ wakers[w].runnable = t /\ IsRunning(t)) =>
                IF get_env_ok(th)
                THEN InQueue(tq[t], t)' = InQueue(tq[t], t) + 1 /\ chan' = chan
                ELSE fallback_can_send =>
                        InChan(t)' = InChan(t) + 1 /\ queue' = queue]_vars
    /\ [][\A q \in Queues : PollReturn(q) => queue' = queue /\ chan' = chan]_vars
    /\ \A t \in Tasks, n \in 1..(MaxPending + 1) :
        (/\ IsRunning(t) /\ polls[t] = n /\ polls[t] <= need[t]
         /\ InQueues(t) + InChan(t) >= 1)
            ~> (polls[t] = n + 1)

\* wake() was called during the first poll of task 1, which has not returned:
\* the runnable is queued behind the running poll.
C34_Witness ==
    /\ running[tq[1]] = 1 /\ polls[1] = 1 /\ need[1] = 1 /\ lastPoll[1] = "none"
    /\ woken[1] = 1 /\ queue[tq[1]] = <<1>>

\* C35: wakes are not coalesced: a wake() from an attached thread whose post
\* the queue accepts adds exactly one entry of the task's runnable behind
\* whatever the queue holds, entries of the same runnable included, and
\* changes nothing else in the queues; so every post made for a task of a
\* live queue is either run or still queued (or still in the fallback
\* channel), and a task can have more than one entry queued.
C35_WakesNotCoalesced ==
    /\ [][\A w \in 1..Len(wakers), th \in Threads :
            (wake(w, th) /\ get_env_ok(th) /\ alive[wakers[w].handler]) =>
                queue' = [queue EXCEPT ![wakers[w].handler] =
                                Append(@, wakers[w].runnable)]]_vars
    /\ [](\A t \in Tasks :
            (tstate[t] = "spawned" /\ alive[tq[t]] /\ panics = 0) =>
                Runs(t) + InQueues(t) + InChan(t) = 1 + woken[t])

\* Two wakes after the first poll of task 1 returned Pending: two entries of
\* its runnable are queued.
C35_Witness ==
    /\ polls[1] = 1 /\ lastPoll[1] = "Pending" /\ ~IsRunning(1)
    /\ woken[1] = 2 /\ queue[tq[1]] = <<1, 1>> /\ chan = <<>>

\* C36: while a waker exists FALLBACK_SENDER is set: a waker is built only by
\* a run of a posted runnable, and post_spawn posts only after
\* init_fallback_thread has returned; so every wake() that takes the fallback
\* path finds the cell set, under every interleaving of spawns (one of them
\* inside the init closure while others wait or arrive) and wakes.
C36_CellSetBeforeWakers ==
    /\ [](wakers # <<>> => cell = "set")
    /\ [](\A t \in Tasks : InQueues(t) + InChan(t) > 0 \/ Runs(t) > 0 => cell = "set")
    /\ [][\A w \in 1..Len(wakers), th \in Threads :
            (wake(w, th) /\ ~get_env_ok(th)) => cell = "set"]_vars
    /\ [][cell = "set" => cell' = "set"]_vars

\* A wake() of a non-attached thread went through the cell to the channel;
\* the two tasks were spawned from different threads.
C36_Witness ==
    /\ cell = "set" /\ Len(wakers) = 1 /\ Len(chan) = 1 /\ panics = 0
    /\ tstate[1] = "spawned" /\ tstate[2] = "spawned" /\ polls[2] = 0
    /\ spawner[1] # spawner[2]

\* C37: the shutdown hook discards no request: it leaves the channel and the
\* fallback thread as they are; after it the fallback thread still takes the
\* oldest request and posts its runnable to its handler; the receive loop
\* ends only on an empty channel; and, the threads being scheduled, every
\* request in the channel when the hook runs is taken out before the loop
\* has ended.
C37_HookKeepsRequests ==
    /\ [][ShutdownHook => chan' = chan /\ fb' = fb /\ queue' = queue]_vars
    /\ [][(hookRan /\ chan' # chan) =>
            /\ fb = "running" /\ fb' = "running"
            /\ chan' = Tail(chan)
            /\ queue' = post(wakers[Head(chan)].handler, wakers[Head(chan)].runnable)]_vars
    /\ [][(fb = "running" /\ fb' # "running") => chan = <<>> /\ ~sender]_vars
    /\ (hookRan /\ chan # <<>>) ~> (chan = <<>> /\ fb = "running")
    /\ (hookRan /\ fb = "running") ~> (fb = "exited" /\ chan = <<>>)

\* The hook has run and taken the sender while two requests are in the
\* channel and the fallback thread is in its loop.
C37_Witness ==
    /\ hookRan /\ ~sender /\ fb = "running"
    /\ Len(chan) = 2 /\ InChan(1) = 2

\* C38: a wake() whose post reaches a looper that has quit goes through as any
\* other: post returns false, wake() returns without panic, the queues and the
\* fallback channel stay as they were (the same holds for the post the
\* fallback thread makes for a request). A task of a queue that has quit, no
\* poll of it being in progress, is from then on never polled, never has
\* close() called on its runnable and keeps its closure.
C38_WakeToDeadQueue ==
    /\ [][\A w \in 1..Len(wakers), th \in Threads :
            (wake(w, th) /\ get_env_ok(th) /\ ~alive[wakers[w].handler]) =>
                /\ queue' = queue /\ chan' = chan /\ panics' = panics
                /\ wakeCalls' = wakeCalls + 1]_vars
    /\ [][(FallbackDeliver /\ ~alive[wakers[Head(chan)].handler]) =>
            queue' = queue /\ fb' = fb /\ panics' = panics]_vars
    /\ [][\A t \in Tasks :
            (tstate[t] # "none" /\ ~alive[tq[t]] /\ ~IsRunning(t)) =>
                /\ polls'[t] = polls[t] /\ lastPoll'[t] = lastPoll[t]
                /\ closeCalls'[t] = closeCalls[t] /\ closure'[t] = closure[t]
                /\ Runs(t)' = Runs(t) /\ ~IsRunning(t)']_vars
    /\ [][\A q \in Queues : ~alive[q] => ~alive'[q] /\ queue'[q] = <<>>]_vars

\* Task 1 is Pending, its looper has quit and wake() was called twice on its
\* waker: nothing is queued, nothing is in the channel, nothing panicked.
C38_Witness ==
    /\ ~alive[tq[1]] /\ tstate[1] = "spawned"
    /\ polls[1] = 1 /\ lastPoll[1] = "Pending" /\ ~IsRunning(1) /\ closure[1]
    /\ woken[1] = 2 /\ wakeCalls = 2 /\ started = 1 /\ fb = "running" /\ sender
    /\ queue[tq[1]] = <<>> /\ chan = <<>> /\ panics = 0 /\ closeCalls[1] = 0

\* C39: wake and wake_by_ref do the same to the host queues and the fallback
\* channel, in every state, for every waker, on every thread and whether or
\* not the JNI calls of the direct path succeed: the same choice between the
\* direct post and the fallback request, the same handler and runnable, one
\* post or one request (or the same panic); they differ only in what becomes
\* of the caller's Arc. Every wake step of the process has that effect.
C39_WakeFormsAgree ==
    /\ [](\A w \in 1..Len(wakers), th \in Threads, jniOk \in BOOLEAN :
            /\ Wake_wake(w, th, jniOk).queue = Wake_wake_by_ref(w, th, jniOk).queue
            /\ Wake_wake(w, th, jniOk).chan = Wake_wake_by_ref(w, th, jniOk).chan
            /\ Wake_wake(w, th, jniOk).panics = Wake_wake_by_ref(w, th, jniOk).panics)
    /\ [][\A w \in 1..Len(wakers), th \in Threads :
            wake(w, th) =>
                /\ queue' = Wake_wake_by_ref(w, th, TRUE).queue
                /\ chan' = Wake_wake_by_ref(w, th, TRUE).chan
                /\ panics' = Wake_wake_by_ref(w, th, TRUE).panics]_vars

\* One wake met an Err on the direct path (no JVM environment on its thread)
\* and left its request in the channel; another was posted directly.
C39_Witness ==
    /\ wakeCalls = 2 /\ Len(chan) = 1 /\ panics = 0
    /\ woken[1] = 2 /\ polls[1] = 1 /\ lastPoll[1] = "Pending" /\ queue[tq[1]] = <<1>>

====
